---- MODULE Spec2Model ----
(***************************************************************************)
(* Model of app_multiempresa.py ("Extractor Definitivo V18"): the          *)
(* structured cell reader (extract_cell_data / find_near), the product     *)
(* table reader (extract_products), the raw package scanner                *)
(* (extract_all_xml_strings), the per-document pipeline (process_full)     *)
(* and the batch loop of the Streamlit script.                             *)
(*                                                                         *)
(* Representation.                                                         *)
(*  - A Python str is a sequence of one-character strings.  Accented       *)
(*    letters are written with a trailing mark ("A'" is A-acute, "N~" is   *)
(*    N-tilde) so that upper(), strip() and replace() act on characters.   *)
(*  - A cell value that is None and a cell value that is "" behave alike   *)
(*    in every function of the program (truthiness tests, clean_text,      *)
(*    normalize_key, get_float), so an empty cell is the empty sequence.   *)
(*    A numeric cell is held as its str() text, which is what every        *)
(*    consumer applies to it.                                              *)
(*  - A float is an exact decimal [m |-> mantissa, e |-> decimals],        *)
(*    standing for m / 10^e, kept normalised (no trailing zero decimals).  *)
(*  - A Python dict is a function over its key set; dict objects live in   *)
(*    `heap` and lists of dicts hold their addresses, so that aliasing     *)
(*    between output records is visible.                                   *)
(***************************************************************************)
EXTENDS Integers, Sequences, FiniteSets, TLC

VARIABLES
    uploaded_files, \* the batch returned by st.file_uploader
    i,              \* position of the batch loop (index of the next file)
    all_data,       \* the accumulated output collection (addresses into heap)
    raw_debug,      \* file name -> fragments of the last file of that name
    errors,         \* the st.error reports issued so far, in order
    heap,           \* dict objects created so far (address = index)
    pc,             \* "loop" while the batch loop runs, then "done"
    cell_data,      \* process_full's cell_data at its return (last call)
    prods,          \* process_full's prods (last call)
    header_row,     \* extract_products' header_row (last call; 0 is None)
    cols,           \* extract_products' cols (last call)
    prod_rows,      \* sheet row each element of prods was read from
    raw_texts,      \* process_full's raw_texts (last call)
    rows,           \* first value returned by the last process_full call
    err,            \* second value returned by the last process_full call
    previous        \* what the run before the last restart of the app gave
                    \* (its records and fragment lists; <<>> before any restart)

vars == <<uploaded_files, i, all_data, raw_debug, errors, heap, pc,
          cell_data, prods, header_row, cols, prod_rows, raw_texts, rows, err,
          previous>>

(***************************************************************************)
(* Python values                                                           *)
(***************************************************************************)
\* Python's None where a str is otherwise held (no text has this shape).
None == <<"None">>

\* Truthiness of an optional str: None and "" are falsy.
Truthy(v) == v # None /\ v # <<>>

Min(S) == CHOOSE x \in S : \A y \in S : x <= y
Max(S) == CHOOSE x \in S : \A y \in S : x >= y

LowerCase == <<"a","b","c","d","e","f","g","h","i","j","k","l","m","n","o","p",
               "q","r","s","t","u","v","w","x","y","z","a'","e'","i'","o'","u'","n~">>
UpperCase == <<"A","B","C","D","E","F","G","H","I","J","K","L","M","N","O","P",
               "Q","R","S","T","U","V","W","X","Y","Z","A'","E'","I'","O'","U'","N~">>

LowerSet == {LowerCase[k] : k \in 1..Len(LowerCase)}
UpperOf == [ch \in LowerSet |-> UpperCase[CHOOSE k \in 1..Len(LowerCase) : LowerCase[k] = ch]]

\* str.upper() on one character.
UpperChar(ch) == IF ch \in LowerSet THEN UpperOf[ch] ELSE ch

\* str.upper()
upper(s) == [k \in 1..Len(s) |-> UpperChar(s[k])]

\* str.strip()
strip(s) ==
    LET keep == {k \in 1..Len(s) : s[k] # " "}
    IN  IF keep = {} THEN <<>> ELSE SubSeq(s, Min(keep), Max(keep))

\* One character of .replace('A'','A').replace('E'','E')... (capitals only).
UnaccentChar(ch) ==
    CASE ch = "A'" -> "A"
      [] ch = "E'" -> "E"
      [] ch = "I'" -> "I"
      [] ch = "O'" -> "O"
      [] ch = "U'" -> "U"
      [] OTHER -> ch

\* Python's `sub in s` on str.
Contains(sub, s) ==
    \E k \in 0..(Len(s) - Len(sub)) : \A j \in 1..Len(sub) : s[k + j] = sub[j]

\* clean_text(text)
clean_text(text) == IF Truthy(text) THEN strip(text) ELSE <<>>

\* normalize_key(text): upper, strip, then the five accent replacements.
normalize_key(text) ==
    IF Truthy(text)
    THEN LET u == strip(upper(text)) IN [k \in 1..Len(u) |-> UnaccentChar(u[k])]
    ELSE <<>>

(***************************************************************************)
(* get_float                                                               *)
(***************************************************************************)
Digits == <<"0","1","2","3","4","5","6","7","8","9">>
DigitSet == {Digits[k] : k \in 1..Len(Digits)}
DigitValue == [ch \in DigitSet |-> (CHOOSE k \in 1..Len(Digits) : Digits[k] = ch) - 1]
IsDigit(ch) == ch \in DigitSet
DigitVal(ch) == DigitValue[ch]

RECURSIVE DigitsToInt(_)
DigitsToInt(ds) ==
    IF ds = <<>> THEN 0
    ELSE 10 * DigitsToInt(SubSeq(ds, 1, Len(ds) - 1)) + DigitVal(ds[Len(ds)])

\* A decimal without trailing zero decimals.
RECURSIVE Dec(_, _)
Dec(m, e) == IF e > 0 /\ m % 10 = 0 THEN Dec(m \div 10, e - 1) ELSE [m |-> m, e |-> e]

Zero == Dec(0, 0)

\* float(s) for s made of digits, "." and "-" only; Zero stands for the
\* ValueError that get_float turns into 0.0.
ParseFloat(s) ==
    LET neg  == s # <<>> /\ s[1] = "-"
        body == IF neg THEN SubSeq(s, 2, Len(s)) ELSE s
        dots == {k \in 1..Len(body) : body[k] = "."}
        ok   == /\ \A k \in 1..Len(body) : IsDigit(body[k]) \/ body[k] = "."
                /\ Cardinality(dots) <= 1
                /\ \E k \in 1..Len(body) : IsDigit(body[k])
        dot  == IF dots = {} THEN Len(body) + 1 ELSE Min(dots)
        ip   == SubSeq(body, 1, dot - 1)
        fp   == SubSeq(body, dot + 1, Len(body))
        mag  == DigitsToInt(ip \o fp)
    IN  IF ok THEN Dec(IF neg THEN 0 - mag ELSE mag, Len(fp)) ELSE Zero

\* get_float(s): re.sub keeps digits, ".", "," and "-"; replace drops the
\* commas; float() parses what is left.  None gives 0.0 as the empty text does.
get_float(s) ==
    LET s_sub   == SelectSeq(s, LAMBDA ch : IsDigit(ch) \/ ch \in {".", ",", "-"})
        s_clean == SelectSeq(s_sub, LAMBDA ch : ch # ",")
    IN  ParseFloat(s_clean)

\* qty*price, total > 0
Mul(a, b) == Dec(a.m * b.m, a.e + b.e)
Positive(a) == a.m > 0

(***************************************************************************)
(* Sheets.  A sheet is a sequence of rows (row 1 first), each a sequence   *)
(* of cell values (column 1 first); all rows have the same length.         *)
(***************************************************************************)
max_row(sheet) == Len(sheet)
max_column(sheet) == IF sheet = <<>> THEN 0 ELSE Len(sheet[1])

\* sheet.cell(row, column).value; a cell outside the stored area is empty.
cell_value(sheet, r, c) ==
    IF r \in 1..max_row(sheet) /\ c \in 1..max_column(sheet) THEN sheet[r][c] ELSE <<>>

\* (r, c) in cells: extract_cell_data keeps the cells whose value is truthy.
InCells(sheet, r, c) == Truthy(cell_value(sheet, r, c))

\* val_norm = normalize_key(val) of every cell.  find_near computes it anew
\* on every call; the value is the same each time, so it is computed once.
val_norms(sheet) ==
    [r \in 1..max_row(sheet) |-> [c \in 1..max_column(sheet) |-> normalize_key(sheet[r][c])]]

\* [normalize_key(k) for k in keywords]
key_norms(keywords) == [j \in 1..Len(keywords) |-> normalize_key(keywords[j])]

\* any(normalize_key(k) in val_norm for k in keywords)
KeywordMatch(knorms, val_norm) == \E j \in 1..Len(knorms) : Contains(knorms[j], val_norm)

\* The k-th cell position of sheet.iter_rows() (row by row, left to right).
RowOf(sheet, k) == ((k - 1) \div max_column(sheet)) + 1
ColOf(sheet, k) == ((k - 1) % max_column(sheet)) + 1

\* The body of find_near's loop from the k-th position on: a matching cell
\* returns its first present neighbour (right, right+1, below, below+1); a
\* matching cell with no such neighbour lets the loop go on.
RECURSIVE find_near_from(_, _, _, _, _)
find_near_from(sheet, norms, knorms, look_down, k) ==
    IF k > max_row(sheet) * max_column(sheet) THEN None
    ELSE LET r == RowOf(sheet, k)
             c == ColOf(sheet, k)
         IN  IF InCells(sheet, r, c) /\ KeywordMatch(knorms, norms[r][c])
             THEN IF InCells(sheet, r, c + 1) THEN sheet[r][c + 1]
                  ELSE IF InCells(sheet, r, c + 2) THEN sheet[r][c + 2]
                  ELSE IF look_down /\ InCells(sheet, r + 1, c) THEN sheet[r + 1][c]
                  ELSE IF look_down /\ InCells(sheet, r + 2, c) THEN sheet[r + 2][c]
                  ELSE find_near_from(sheet, norms, knorms, look_down, k + 1)
             ELSE find_near_from(sheet, norms, knorms, look_down, k + 1)

\* find_near(keywords, look_down=True) over the cells of the sheet.
find_near(sheet, norms, keywords, look_down) ==
    find_near_from(sheet, norms, key_norms(keywords), look_down, 1)

\* " ".join(cells.values()) from the k-th position on.
RECURSIVE JoinCells(_, _, _)
JoinCells(sheet, k, acc) ==
    IF k > max_row(sheet) * max_column(sheet) THEN acc
    ELSE LET r == RowOf(sheet, k)
             c == ColOf(sheet, k)
         IN  IF InCells(sheet, r, c)
             THEN JoinCells(sheet, k + 1,
                            IF acc = None THEN sheet[r][c] ELSE acc \o <<" ">> \o sheet[r][c])
             ELSE JoinCells(sheet, k + 1, acc)

all_text(sheet) ==
    LET joined == JoinCells(sheet, 1, None)
    IN  upper(IF joined = None THEN <<>> ELSE joined)

\* data['Fecha']: the label search, else day-month-year when all three exist.
Fecha(sheet, norms) ==
    LET direct == find_near(sheet, norms, <<<<"F","E","C","H","A">>, <<"D","A","T","E">>>>, TRUE)
        y == find_near(sheet, norms, <<<<"Y","E","A","R">>, <<"A","N~","O">>>>, TRUE)
        m == find_near(sheet, norms, <<<<"M","O","N","T","H">>, <<"M","E","S">>>>, TRUE)
        d == find_near(sheet, norms, <<<<"D","A","Y">>, <<"D","I","A">>>>, TRUE)
    IN  IF Truthy(direct) THEN direct
        ELSE IF Truthy(y) /\ Truthy(m) /\ Truthy(d) THEN d \o <<"-">> \o m \o <<"-">> \o y
        ELSE direct

Moneda(text) ==
    IF Contains(<<"D","O","L","A","R">>, text) \/ Contains(<<"U","S","D">>, text) THEN <<"U","S","D">>
    ELSE IF Contains(<<"E","U","R","O">>, text) \/ Contains(<<"E","U","R">>, text) THEN <<"E","U","R">>
    ELSE None

incos == <<<<"F","O","B">>, <<"C","I","F">>, <<"C","F","R">>, <<"E","X","W">>, <<"F","C","A">>>>

\* next((i for i in incos if i in all_text), None)
Incoterm(text) ==
    LET hits == {k \in 1..Len(incos) : Contains(incos[k], text)}
    IN  IF hits = {} THEN None ELSE incos[Min(hits)]

ClienteKeys == <<<<"C","L","I","E","N","T","E">>, <<"C","U","S","T","O","M","E","R">>, <<"S","O","L","D"," ","T","O">>>>
NumExpKeys == <<<<"E","X","P">>, <<"I","N","V","O","I","C","E"," ","N","O">>, <<"F","A","C","T","U","R","A">>>>

extract_cell_data(sheet) ==
    LET norms == val_norms(sheet)
        text  == all_text(sheet)
    IN  [Cliente     |-> find_near(sheet, norms, ClienteKeys, TRUE),
         Num_Exp     |-> find_near(sheet, norms, NumExpKeys, TRUE),
         Fecha       |-> Fecha(sheet, norms),
         Puerto_Emb  |-> find_near(sheet, norms, <<<<"P","U","E","R","T","O"," ","D","E"," ","E","M","B","A","R","Q","U","E">>, <<"L","O","A","D","I","N","G"," ","P","O","R","T">>>>, TRUE),
         Puerto_Dest |-> find_near(sheet, norms, <<<<"P","U","E","R","T","O"," ","D","E","S","T","I","N","O">>, <<"D","E","S","T","I","N","A","T","I","O","N">>>>, TRUE),
         Forma_Pago  |-> find_near(sheet, norms, <<<<"F","O","R","M","A"," ","D","E"," ","P","A","G","O">>, <<"P","A","Y","M","E","N","T"," ","T","E","R","M","S">>>>, TRUE),
         Moneda      |-> Moneda(text),
         Incoterm    |-> Incoterm(text)]

(***************************************************************************)
(* extract_products                                                        *)
(***************************************************************************)
\* txts = [normalize_key(c.value) for c in row]
txts(row) == [c \in 1..Len(row) |-> normalize_key(row[c])]

HasDescripcion(t) == \E c \in 1..Len(t) : Contains(<<"D","E","S","C","R","I","P","C","I","O","N">>, t[c])
HasCantidad(t) == \E c \in 1..Len(t) : Contains(<<"C","A","N","T","I","D","A","D">>, t[c])

\* The header test with `or` in place of `and`.
IsHeaderRowEitherMarker(row) ==
    LET t == txts(row) IN HasDescripcion(t) \/ HasCantidad(t)

\* any("DESCRIPCION" in t for t in txts) and any("CANTIDAD" in t for t in txts)
IsHeaderRow(row) ==
    LET t == txts(row) IN HasDescripcion(t) /\ HasCantidad(t)

\* The header search from row r on; 0 stands for header_row = None.
RECURSIVE header_scan(_, _)
header_scan(sheet, r) ==
    IF r > max_row(sheet) THEN 0
    ELSE IF IsHeaderRow(sheet[r]) THEN r
    ELSE header_scan(sheet, r + 1)

find_header_row(sheet) == header_scan(sheet, 1)

\* The if/elif chain that assigns a header cell to a column key.
ColKey(v) ==
    IF Contains(<<"D","E","S","C","R","I","P","C","I","O","N">>, v) THEN "desc"
    ELSE IF Contains(<<"C","A","N","T","I","D","A","D">>, v) THEN "qty"
    ELSE IF Contains(<<"P","R","E","C","I","O">>, v) THEN "price"
    ELSE IF Contains(<<"T","O","T","A","L">>, v) /\ ~Contains(<<"C","A","S","E","S">>, v) THEN "total"
    ELSE "none"

\* cols after the loop over the header row: a later cell overwrites an
\* earlier one of the same key.
header_cols(row) ==
    LET t     == txts(row)
        keyOf == [c \in 1..Len(row) |-> ColKey(t[c])]
        keys  == {keyOf[c] : c \in 1..Len(row)} \ {"none"}
    IN  [k \in keys |-> Max({c \in 1..Len(row) : keyOf[c] = k})]

\* get_float(sheet.cell(row=i, column=cols[key]).value if key in cols else 0)
col_float(sheet, colmap, r, key) ==
    IF key \in DOMAIN colmap THEN get_float(cell_value(sheet, r, colmap[key])) ELSE Zero

\* "TOTAL" in desc_str.upper() and len(desc_str) < 20
stop_condition(desc_str) == Contains(<<"T","O","T","A","L">>, upper(desc_str)) /\ Len(desc_str) < 20

\* The rows, from r on, that append a product: the scan ends at the stop
\* condition or after max_row, and a row appends only when price > 0.
RECURSIVE product_scan(_, _, _, _)
product_scan(sheet, colmap, r, acc) ==
    IF r > max_row(sheet) THEN acc
    ELSE LET desc_str == clean_text(cell_value(sheet, r, colmap["desc"]))
         IN  IF stop_condition(desc_str) THEN acc
             ELSE product_scan(sheet, colmap, r + 1,
                               IF Positive(col_float(sheet, colmap, r, "price"))
                               THEN Append(acc, r) ELSE acc)

\* The line total with `total != 0` in place of `total > 0`.
LineTotalUnlessZero(total, qty, price) == IF total.m # 0 THEN total ELSE Mul(qty, price)

\* total if total > 0 else qty*price
line_total(total, qty, price) == IF Positive(total) THEN total ELSE Mul(qty, price)

\* The dict appended for row r.
product(sheet, colmap, r) ==
    LET qty   == col_float(sheet, colmap, r, "qty")
        price == col_float(sheet, colmap, r, "price")
        total == col_float(sheet, colmap, r, "total")
    IN  ("Descripcion" :> clean_text(cell_value(sheet, r, colmap["desc"])))
        @@ ("Cantidad" :> qty)
        @@ ("Precio Unitario" :> price)
        @@ ("Total Linea" :> line_total(total, qty, price))

\* `if header_row and 'desc' in cols:` and the loop under it: the sheet
\* rows that append a product, in order.
scanned_rows(sheet, h, colmap) ==
    IF h # 0 /\ "desc" \in DOMAIN colmap THEN product_scan(sheet, colmap, h + 1, <<>>) ELSE <<>>

\* The list returned, with the sheet row of each product kept beside it.
table_of(sheet, h, colmap, rs) ==
    [header_row |-> h, cols |-> colmap, rows |-> rs,
     products |-> [k \in 1..Len(rs) |-> product(sheet, colmap, rs[k])]]

table_under(sheet, h, colmap) == table_of(sheet, h, colmap, scanned_rows(sheet, h, colmap))

table_from(sheet, h) == table_under(sheet, h, IF h = 0 THEN <<>> ELSE header_cols(sheet[h]))

\* extract_products(sheet), as [header_row, colmap, rows, products].
product_table(sheet) == table_from(sheet, find_header_row(sheet))

extract_products(sheet) == product_table(sheet).products

(***************************************************************************)
(* extract_all_xml_strings.  A package is what the archive holds:          *)
(*   shared   - the text of each node of xl/sharedStrings.xml, in order    *)
(*   drawings - the regex matches of the drawing parts, in order           *)
(*   comments - the regex matches of the comment parts, in order           *)
(*   fail_at  - where an exception is raised while scanning: "none", or    *)
(*              "zip" (the archive cannot be opened), "shared", "drawing"  *)
(*              or "comment" (that part cannot be opened or read).         *)
(***************************************************************************)
\* if t.text and t.text.strip(): found_strings.add(t.text.strip())
shared_strings(package) ==
    {strip(package.shared[k]) : k \in {j \in 1..Len(package.shared) :
                                          strip(package.shared[j]) # <<>>}}

\* if len(m.strip()) > 1: found_strings.add(m.strip())
match_strings(matches) ==
    {strip(matches[k]) : k \in {j \in 1..Len(matches) : Len(strip(matches[j])) > 1}}

\* found_strings if the except branch emptied it: nothing is kept of a
\* scan that failed.
FoundStringsAllOrNothing(package) ==
    IF package.fail_at # "none" THEN {}
    ELSE shared_strings(package) \cup match_strings(package.drawings)
             \cup match_strings(package.comments)

\* found_strings when the function leaves its try block: the parts scanned
\* before the exception, or all of them.
found_strings(package) ==
    LET at == package.fail_at
        s1 == IF at \in {"zip", "shared"} THEN {} ELSE shared_strings(package)
        s2 == IF at \in {"zip", "shared", "drawing"} THEN {}
              ELSE match_strings(package.drawings)
        s3 == IF at \in {"zip", "shared", "drawing", "comment"} THEN {}
              ELSE match_strings(package.comments)
    IN  s1 \cup s2 \cup s3

\* The st.error("Error XML: ...") of the except branch.
xml_reports(package) ==
    IF package.fail_at = "none" THEN <<>> ELSE << [file |-> "", msg |-> "Error XML"] >>

\* list(found_strings): a set has no order of its own, so every listing of
\* the set is a possible return value.
Listings(S) ==
    {s \in [1..Cardinality(S) -> S] : \A a, b \in 1..Cardinality(S) : s[a] = s[b] => a = b}

(***************************************************************************)
(* process_full                                                            *)
(***************************************************************************)
\* The element at the first of the hit positions of a list, or dflt: the
\* result of a `for ... break` search.
FirstSuch(list, hits, dflt) == IF hits = {} THEN dflt ELSE list[Min(hits)]

\* The same search without its break: the last hit.
LastSuch(list, hits, dflt) == IF hits = {} THEN dflt ELSE list[Max(hits)]

\* The observation search with `len(t) >= 30` in place of `len(t) > 30`.
ObservacionesFrom30(texts) ==
    LET Clean(t) == /\ Len(t) >= 30
                    /\ LET tn == normalize_key(t)
                       IN  ~(\/ Contains(<<"S","O","C","I","E","D","A","D">>, tn)
                             \/ Contains(<<"C","O","M","M","E","R","C","I","A","L"," ","I","N","V","O","I","C","E">>, tn)
                             \/ Contains(<<"B","A","N","K">>, tn))
    IN  FirstSuch(texts, {k \in 1..Len(texts) : Clean(texts[k])}, <<>>)

\* obs_clean[0] if obs_clean else ""
Observaciones_Detectadas(texts) ==
    LET Clean(t) == /\ Len(t) > 30
                    /\ LET tn == normalize_key(t)
                       IN  ~(\/ Contains(<<"S","O","C","I","E","D","A","D">>, tn)
                             \/ Contains(<<"C","O","M","M","E","R","C","I","A","L"," ","I","N","V","O","I","C","E">>, tn)
                             \/ Contains(<<"B","A","N","K">>, tn))
    IN  FirstSuch(texts, {k \in 1..Len(texts) : Clean(texts[k])}, <<>>)

IsCondicion(t) ==
    LET tn == normalize_key(t)
    IN  \/ Contains(<<"B","A","J","O"," ","C","O","N","D","I","C","I","O","N">>, tn)
        \/ Contains(<<"C","O","N","S","I","G","N","A","C","I","O","N">>, tn)
        \/ Contains(<<"U","N","D","E","R"," ","C","O","N","D","I","T","I","O","N">>, tn)

\* condicion_candidata if its loop had no break.
CondicionLastMatch(texts) ==
    LastSuch(texts, {k \in 1..Len(texts) : IsCondicion(texts[k])}, None)

\* condicion_candidata after its loop (None when no fragment matches).
condicion_candidata(texts) ==
    FirstSuch(texts, {k \in 1..Len(texts) : IsCondicion(texts[k])}, None)

\* tc_candidate after its loop.
tc_candidate(texts) ==
    LET IsTC(t) == LET tn == normalize_key(t)
                   IN  Contains(<<"T","I","P","O"," ","C","A","M","B","I","O">>, tn) \/ Contains(<<"E","X","C","H","A","N","G","E"," ","R","A","T","E">>, tn)
    IN  FirstSuch(texts, {k \in 1..Len(texts) : IsTC(texts[k])}, None)

\* dict.get(key, default)
Get(d, key, dflt) == IF key \in DOMAIN d THEN d[key] ELSE dflt

\* cell_data after step 3: the mined keys are added; Condicion_Venta is set
\* only when a fragment matched (the else branch is `pass`).
mine(cd, texts) ==
    LET cand == condicion_candidata(texts)
    IN  (IF Truthy(cand) THEN ("Condicion_Venta" :> cand) ELSE <<>>)
        @@ ("Observaciones_Detectadas" :> Observaciones_Detectadas(texts))
        @@ ("Tipo_Cambio_Detectado" :> tc_candidate(texts))
        @@ cd

base_row(name, cd) ==
    [Archivo         |-> name,
     Cliente         |-> Get(cd, "Cliente", None),
     Num_Exp         |-> Get(cd, "Num_Exp", None),
     Fecha           |-> Get(cd, "Fecha", None),
     Condicion_Venta |-> Get(cd, "Condicion_Venta", <<>>),
     Moneda          |-> Get(cd, "Moneda", None),
     Incoterm        |-> Get(cd, "Incoterm", None),
     Observaciones   |-> Get(cd, "Observaciones_Detectadas", None),
     Tipo_Cambio     |-> Get(cd, "Tipo_Cambio_Detectado", None)]

\* A new dict object on the heap.
new_dict(h, d) == [heap |-> Append(h, d), addr |-> Len(h) + 1]

\* `row = base_row` in place of `row = base_row.copy()`: the same object.
CopyIsAlias(h, addr) == [heap |-> h, addr |-> addr]

\* row = base_row.copy(): a new object with the same items.
dict_copy(h, addr) == new_dict(h, h[addr])

\* d.update(p): p's items replace or extend d's.
dict_update(d, p) ==
    [k \in DOMAIN d \cup DOMAIN p |-> IF k \in DOMAIN p THEN p[k] ELSE d[k]]

\* for p in prods: row = base_row.copy(); row.update(p); final_rows.append(row)
RECURSIVE rows_loop(_, _, _, _, _)
rows_loop(h, base, ps, k, final_rows) ==
    IF k > Len(ps) THEN [heap |-> h, final_rows |-> final_rows]
    ELSE LET cp == dict_copy(h, base)
             h2 == [cp.heap EXCEPT ![cp.addr] = dict_update(@, ps[k])]
         IN  rows_loop(h2, base, ps, k + 1, Append(final_rows, cp.addr))

\* Step 4 without its else branch.
JoinWithoutElse(b, ps) == rows_loop(b.heap, b.addr, ps, 1, <<>>)

\* if prods: ... else: final_rows.append(base_row)
join(b, ps) ==
    IF ps # <<>> THEN rows_loop(b.heap, b.addr, ps, 1, <<>>)
    ELSE [heap |-> b.heap, final_rows |-> <<b.addr>>]

\* Step 4 of process_full ("Unir").
assemble(h, name, cd, ps) == join(new_dict(h, base_row(name, cd)), ps)

\* What process_full returns, with its locals, once step 4 has run.
returned(listing, cd, tb, out, reports) ==
    [rows |-> out.final_rows, err |-> "None", raw |-> listing, heap |-> out.heap,
     reports |-> reports, cell_data |-> cd, prods |-> tb.products,
     header_row |-> tb.header_row, cols |-> tb.cols, prod_rows |-> tb.rows]

\* Steps 3 and 4 of process_full, given the results of steps 1 and 2.
mine_and_join(f, listing, h, cd, tb) ==
    returned(listing, cd, tb, assemble(h, f.name, cd, tb.products), xml_reports(f.package))

\* process_full(uploaded_file), given the listing that list(found_strings)
\* returns.  rows = <<>> stands for the None of the failure return (a
\* successful return never has an empty list).
process_full(f, listing, h) ==
    IF ~f.opens
    THEN [rows |-> <<>>, err |-> "Error archivo", raw |-> <<>>, heap |-> h,
          reports |-> <<>>, cell_data |-> <<>>, prods |-> <<>>,
          header_row |-> 0, cols |-> <<>>, prod_rows |-> <<>>]
    ELSE mine_and_join(f, listing, h, mine(extract_cell_data(f.sheet), listing),
                       product_table(f.sheet))

(***************************************************************************)
(* The batch loop of the script                                            *)
(***************************************************************************)
\* `all_data = rows` in place of `all_data.extend(rows)`.
ExtendOverwrites(data, rs) == IF rs # <<>> THEN rs ELSE data

\* if rows: all_data.extend(rows)
extend(data, rs) == IF rs # <<>> THEN data \o rs ELSE data

\* One iteration of `for f in uploaded_files`.
LoopBody ==
    /\ pc = "loop"
    /\ i <= Len(uploaded_files)
    /\ LET f == uploaded_files[i]
       IN  \E listing \in (IF f.opens THEN Listings(found_strings(f.package)) ELSE {<<>>}) :
             \E res \in {process_full(f, listing, heap)} :
                 /\ all_data' = extend(all_data, res.rows)
                 /\ raw_debug' = IF res.rows # <<>>
                                 THEN (f.name :> res.raw) @@ raw_debug
                                 ELSE raw_debug
                 /\ errors' = errors \o res.reports \o
                                (IF res.err # "None"
                                 THEN << [file |-> f.name, msg |-> res.err] >> ELSE <<>>)
                 /\ heap' = res.heap
                 /\ cell_data' = res.cell_data
                 /\ prods' = res.prods
                 /\ header_row' = res.header_row
                 /\ cols' = res.cols
                 /\ prod_rows' = res.prod_rows
                 /\ raw_texts' = res.raw
                 /\ rows' = res.rows
                 /\ err' = res.err
    /\ i' = i + 1
    /\ UNCHANGED <<uploaded_files, pc, previous>>

\* The loop is exhausted: the script goes on to show the table.
LoopExit ==
    /\ pc = "loop"
    /\ i > Len(uploaded_files)
    /\ pc' = "done"
    /\ UNCHANGED <<uploaded_files, i, all_data, raw_debug, errors, heap,
                   cell_data, prods, header_row, cols, prod_rows, raw_texts, rows, err,
                   previous>>

Next == LoopBody \/ LoopExit

\* The app is stopped and started again and the same batch is uploaded: the
\* script runs from its first line in a new interpreter (new objects, and
\* a string hash seed of its own, on which the order of a set depends).
Restart ==
    /\ pc = "done"
    /\ previous' = << [data |-> [k \in 1..Len(all_data) |-> heap[all_data[k]]],
                       raw  |-> raw_debug] >>
    /\ i' = 1
    /\ all_data' = <<>>
    /\ raw_debug' = <<>>
    /\ errors' = <<>>
    /\ heap' = <<>>
    /\ pc' = "loop"
    /\ cell_data' = <<>>
    /\ prods' = <<>>
    /\ header_row' = 0
    /\ cols' = <<>>
    /\ prod_rows' = <<>>
    /\ raw_texts' = <<>>
    /\ rows' = <<>>
    /\ err' = "None"
    /\ UNCHANGED uploaded_files

NextRestart == LoopBody \/ LoopExit \/ Restart

\* The script starts with the batch the uploader returned and nothing else.
InitWith(batches) ==
    /\ uploaded_files \in batches
    /\ i = 1
    /\ all_data = <<>>
    /\ raw_debug = <<>>
    /\ errors = <<>>
    /\ heap = <<>>
    /\ pc = "loop"
    /\ cell_data = <<>>
    /\ prods = <<>>
    /\ header_row = 0
    /\ cols = <<>>
    /\ prod_rows = <<>>
    /\ raw_texts = <<>>
    /\ rows = <<>>
    /\ err = "None"
    /\ previous = <<>>

(***************************************************************************)
(* Inputs.  The uploads are drawn from bounded families of documents.      *)
(***************************************************************************)
MaxBatch == 3    \* files in one upload
MaxRows == 3     \* rows of a generated sheet
MaxShared == 2   \* nodes of a generated sharedStrings part

SeqsUpTo(V, n) == UNION {[1..k -> V] : k \in 0..n}

NoPackage == [shared |-> <<>>, drawings |-> <<>>, comments |-> <<>>, fail_at |-> "none"]

\* A document whose workbook cannot be loaded.
Unreadable(name) == [name |-> name, opens |-> FALSE, sheet |-> <<>>, package |-> NoPackage]

Readable(name, sheet, package) ==
    [name |-> name, opens |-> TRUE, sheet |-> sheet, package |-> package]

\* Rows of a sheet with a product table (description, quantity, price, total).
ProductRowTemplates ==
    { <<<<"D","E","S","C","R","I","P","C","I","O","N">>, <<"C","A","N","T","I","D","A","D">>, <<"P","R","E","C","I","O"," ","U","N","I","T">>, <<"T","O","T","A","L">>>>,
      <<<<"D","e","s","c","r","i","p","c","i","o'","n">>, <<"C","a","n","t","i","d","a","d">>, <<"V","a","l","o","r">>, <<>>>>,
      <<<<"D","E","S","C","R","I","P","C","I","O","N">>, <<>>, <<>>, <<>>>>,
      <<<<>>, <<"C","A","N","T","I","D","A","D">>, <<>>, <<>>>>,
      <<<<"D","E","S","C","R","I","P","C","I","O","N","A","D","I","C","I","O","N","A","L">>, <<"C","A","N","T","I","D","A","D">>, <<"P","R","E","C","I","O">>, <<>>>>,
      <<<<"C","A","J","A","S"," ","D","E"," ","A","R","A","N","D","A","N","O","S">>, <<"5","0","0">>, <<"2","0",".","0">>, <<>>>>,
      <<<<"U","V","A","S">>, <<"1",",","0","0","0">>, <<"$","1","5",".","0","0">>, <<"1","4","0","0","0">>>>,
      <<<<"P","E","R","A","S">>, <<"2">>, <<"5">>, <<"-","3">>>>,
      <<<<>>, <<"3">>, <<"7">>, <<>>>>,
      <<<<"T","O","T","A","L">>, <<"5">>, <<"7">>, <<"3","5">>>>,
      <<<<"O","B","S","E","R","V","A","C","I","O","N","E","S">>, <<>>, <<"9">>, <<>>>> }

\* Rows of a sheet with labelled header fields.
CellRowTemplates ==
    { <<<<"C","L","I","E","N","T","E">>, <<"A","C","M","E">>, <<>>>>,
      <<<<"C","L","I","E","N","T","E">>, <<>>, <<>>>>,
      <<<<>>, <<>>, <<"C","L","I","E","N","T","E">>>>,
      <<<<"E","X","P","O","R","T","A","D","O","R","A">>, <<"S","U","R">>, <<>>>>,
      <<<<"B","E","T","A">>, <<>>, <<"G","A","M","M","A">>>>,
      <<<<>>, <<>>, <<>>>> }

Sheets == (SeqsUpTo(ProductRowTemplates, MaxRows) \cup SeqsUpTo(CellRowTemplates, MaxRows))
          \ {<<>>}

\* Three sheets for the batch runs: no table, one product, two products.
BatchSheets ==
    { << <<<<"C","L","I","E","N","T","E">>, <<"A","C","M","E">>, <<>>, <<>>>> >>,
      << <<<<"D","E","S","C","R","I","P","C","I","O","N">>, <<"C","A","N","T","I","D","A","D">>, <<"P","R","E","C","I","O"," ","U","N","I","T">>, <<"T","O","T","A","L">>>>,
         <<<<"C","A","J","A","S"," ","D","E"," ","A","R","A","N","D","A","N","O","S">>, <<"5","0","0">>, <<"2","0",".","0">>, <<>>>> >>,
      << <<<<"C","L","I","E","N","T","E">>, <<"A","C","M","E">>, <<>>, <<>>>>,
         <<<<"D","E","S","C","R","I","P","C","I","O","N">>, <<"C","A","N","T","I","D","A","D">>, <<"P","R","E","C","I","O"," ","U","N","I","T">>, <<"T","O","T","A","L">>>>,
         <<<<"U","V","A","S">>, <<"1",",","0","0","0">>, <<"$","1","5",".","0","0">>, <<"1","4","0","0","0">>>>,
         <<<<"P","E","R","A","S">>, <<"2">>, <<"5">>, <<"-","3">>>> >> }

BatchPackage == [shared |-> <<<<"M","e","r","c","a","d","e","r","i'","a"," ","e","n"," ","c","o","n","s","i","g","n","a","c","i","o'","n">>>>, drawings |-> <<>>,
                 comments |-> <<>>, fail_at |-> "none"]

FileNames == {"a.xlsx", "b.xlsx"}

BatchDocuments ==
    {Unreadable(n) : n \in FileNames}
    \cup {Readable(n, s, BatchPackage) : n \in FileNames, s \in BatchSheets}

\* Text nodes of a package.
SharedTexts ==
    { <<"B","A","J","O"," ","C","O","N","D","I","C","I","O","N"," ","D","E"," ","A","C","E","P","T","A","C","I","O","N"," ","F","I","N","A","L"," ","D","E","L"," ","C","L","I","E","N","T","E">>,
      <<" ","E","s","t","a","s"," ","c","a","j","a","s"," ","v","a","n"," ","a"," ","c","o","n","s","i","g","n","a","c","i","o'","n"," ">>,
      <<"T","I","P","O"," ","C","A","M","B","I","O"," ","9","5","0">>,
      <<"S","O","C","I","E","D","A","D"," ","E","X","P","O","R","T","A","D","O","R","A"," ","D","E"," ","F","R","U","T","A","S"," ","D","E","L"," ","S","U","R">>,
      <<"E","X","C","H","A","N","G","E"," ","R","A","T","E"," ","9","5","0"," ","C","L","P"," ","P","O","R"," ","D","O","L","A","R">> }

Packages ==
    [shared   : SeqsUpTo(SharedTexts, MaxShared),
     drawings : {<<>>, <<<<"X">>, <<"G","o","o","d","s"," ","s","o","l","d"," ","u","n","d","e","r"," ","c","o","n","d","i","t","i","o","n">>>>},
     comments : {<<>>, <<<<"s","h","o","r","t">>>>},
     fail_at  : {"none", "zip", "shared", "drawing", "comment"}]

MineSheet == << <<<<"C","L","I","E","N","T","E">>, <<"A","C","M","E">>, <<"F","O","R","M","A"," ","D","E"," ","P","A","G","O">>, <<"C","O","L","L","E","C","T">>>> >>

\* Batches of any documents: the batch loop.
Init == InitWith(SeqsUpTo(BatchDocuments, MaxBatch))
Spec == Init /\ [][Next]_vars

\* One readable document with a generated sheet: the structured readers.
InitSheet == InitWith({<<Readable("a.xlsx", s, NoPackage)>> : s \in Sheets})
SpecSheet == InitSheet /\ [][Next]_vars

\* One readable document with a generated package: the fragment mining.
InitMine == InitWith({<<Readable("a.xlsx", MineSheet, p)>> : p \in Packages})
SpecMine == InitMine /\ [][Next]_vars

\* One readable document whose package has up to MaxShared text nodes, run
\* again after each restart of the app: the order of the fragment list.
RestartTexts == SharedTexts \ {<<"S","O","C","I","E","D","A","D"," ","E","X","P","O","R","T","A","D","O","R","A"," ","D","E"," ","F","R","U","T","A","S"," ","D","E","L"," ","S","U","R">>}

RestartPackages ==
    [shared   : SeqsUpTo(RestartTexts, MaxShared),
     drawings : {<<>>},
     comments : {<<>>},
     fail_at  : {"none"}]

InitRestart == InitWith({<<Readable("a.xlsx", MineSheet, p)>> : p \in RestartPackages})
SpecRestart == InitRestart /\ [][NextRestart]_vars

(***************************************************************************)
(* Properties                                                              *)
(***************************************************************************)
HeaderFields == {"Archivo", "Cliente", "Num_Exp", "Fecha", "Condicion_Venta",
                 "Moneda", "Incoterm", "Observaciones", "Tipo_Cambio"}
ProductFields == {"Descripcion", "Cantidad", "Precio Unitario", "Total Linea"}

\* The loop has just run process_full on a file / on a file that was read.
Processed == i > 1
ReadOK == i > 1 /\ uploaded_files[i - 1].opens

\* C1: for a document that is read, process_full returns exactly one record
\* with the header fields and no product field when extract_products found
\* nothing, and otherwise exactly one record per product, in product order
\* (so max(1, number of products) records).
C1_RecordAssembly ==
    ReadOK =>
        /\ Len(rows) = (IF Len(prods) = 0 THEN 1 ELSE Len(prods))
        /\ IF prods = <<>>
           THEN DOMAIN heap[rows[1]] = HeaderFields
           ELSE \A k \in 1..Len(prods) :
                    /\ DOMAIN heap[rows[k]] = HeaderFields \cup ProductFields
                    /\ \A fld \in ProductFields : heap[rows[k]][fld] = prods[k][fld]

\* A document without products has just given its single header-only record,
\* after an earlier document of the batch gave two product records.
C1_Witness ==
    /\ ReadOK
    /\ prods = <<>>
    /\ Len(rows) = 1
    /\ Len(all_data) >= 3
    /\ DOMAIN heap[all_data[1]] = HeaderFields \cup ProductFields
    /\ DOMAIN heap[rows[1]] = HeaderFields

\* C2: all records of one document agree on every header field, each header
\* field still has the value of the base row (the merge of a product never
\* overwrites it), and no two output records are the same object (changing
\* one cannot change another).
C2_HeaderConstant ==
    /\ ReadOK =>
          \A a \in 1..Len(rows) : \A fld \in HeaderFields :
              /\ heap[rows[a]][fld] = base_row(uploaded_files[i - 1].name, cell_data)[fld]
              /\ \A b \in 1..Len(rows) : heap[rows[a]][fld] = heap[rows[b]][fld]
    /\ \A a, b \in 1..Len(all_data) : a # b => all_data[a] # all_data[b]

\* Two records of one document, different products, same header, two objects.
C2_Witness ==
    /\ ReadOK
    /\ Len(rows) = 2
    /\ rows[1] # rows[2]
    /\ heap[rows[1]]["Descripcion"] # heap[rows[2]]["Descripcion"]
    /\ heap[rows[1]]["Cliente"] = heap[rows[2]]["Cliente"]
    /\ heap[rows[1]]["Cliente"] # None
    /\ Len(all_data) > 2

\* The names of the files reported with "Error archivo", in report order.
ArchivoErrors(errs) ==
    LET sel == SelectSeq(errs, LAMBDA e : e.msg = "Error archivo")
    IN  [k \in 1..Len(sel) |-> sel[k].file]

\* One iteration of the batch loop, as C3 describes it.
C3_Step ==
    (pc = "loop" /\ i <= Len(uploaded_files)) =>
        /\ i' = i + 1
        /\ pc' = "loop"
        /\ \A a \in 1..Len(heap) : heap'[a] = heap[a]
        /\ IF uploaded_files[i].opens
           THEN /\ rows' # <<>>
                /\ all_data' = all_data \o rows'
                /\ \A k \in 1..Len(rows') :
                       /\ rows'[k] > Len(heap)
                       /\ heap'[rows'[k]].Archivo = uploaded_files[i].name
                /\ ArchivoErrors(errors') = ArchivoErrors(errors)
           ELSE /\ all_data' = all_data
                /\ ArchivoErrors(errors') = Append(ArchivoErrors(errors), uploaded_files[i].name)

\* C3: whatever subset of the batch fails to open, the loop goes on to the
\* next document after a failing one and ends only when every document has
\* been processed; a failing document is reported once and adds, removes and
\* changes no record; a document that is read appends its records, so that
\* the collection is the concatenation, in batch order, of the record lists
\* of the documents that were read.
C3_BatchContinues ==
    /\ [][C3_Step]_vars
    /\ [](pc = "done" => i = Len(uploaded_files) + 1)
    /\ [](Len(ArchivoErrors(errors))
            = Cardinality({k \in 1..(i - 1) : ~uploaded_files[k].opens}))

\* A batch of three whose second file failed: one report, and the records of
\* the first and of the third file are both in the collection, in that order.
C3_Witness ==
    /\ pc = "done"
    /\ Len(uploaded_files) = 3
    /\ uploaded_files[1].opens /\ ~uploaded_files[2].opens /\ uploaded_files[3].opens
    /\ uploaded_files[1].name = "a.xlsx" /\ uploaded_files[3].name = "b.xlsx"
    /\ ArchivoErrors(errors) = <<uploaded_files[2].name>>
    /\ Len(all_data) >= 2
    /\ heap[all_data[1]].Archivo = "a.xlsx"
    /\ heap[all_data[Len(all_data)]].Archivo = "b.xlsx"

(***************************************************************************)
(* Properties of the structured readers (one document, generated sheet)    *)
(***************************************************************************)
\* The sheet of the file the loop has just processed.
LastSheet == uploaded_files[i - 1].sheet

Pad(s) == <<" ">> \o s \o <<" ">>

\* Token-bounded matching as C4 words it: the text equals the keyword or has
\* it as a whole space-delimited word.
TokenMatch(kw, text) == text = kw \/ Contains(Pad(kw), Pad(text))

\* Some stored cell of the sheet token-matches one of the keywords.
HasTokenAnchor(sheet, keywords) ==
    \E r \in 1..max_row(sheet) : \E c \in 1..max_column(sheet) :
        /\ InCells(sheet, r, c)
        /\ \E j \in 1..Len(keywords) :
               TokenMatch(normalize_key(keywords[j]), normalize_key(sheet[r][c]))

MarkerOf == [desc |-> <<"D","E","S","C","R","I","P","C","I","O","N">>, qty |-> <<"C","A","N","T","I","D","A","D">>,
             price |-> <<"P","R","E","C","I","O">>, total |-> <<"T","O","T","A","L">>]

\* C4: matching is token-bounded.  A field resolved by find_near has an
\* anchor cell that equals a keyword or holds it as a whole word, and every
\* column extract_products assigns has a header cell that equals its marker
\* or holds it as a whole word; a cell that has the keyword only inside a
\* longer word is used for neither.
C4_TokenBounded ==
    ReadOK =>
        /\ cell_data["Cliente"] # None => HasTokenAnchor(LastSheet, ClienteKeys)
        /\ cell_data["Num_Exp"] # None => HasTokenAnchor(LastSheet, NumExpKeys)
        /\ header_row # 0 =>
              \A key \in DOMAIN cols :
                  TokenMatch(MarkerOf[key], normalize_key(LastSheet[header_row][cols[key]]))

\* The header cell "DESCRIPCIONADICIONAL" is taken as the description column
\* and products are read under it.
C4_Witness ==
    /\ ReadOK
    /\ header_row = 1
    /\ LastSheet[1][1] = <<"D","E","S","C","R","I","P","C","I","O","N","A","D","I","C","I","O","N","A","L">>
    /\ cols["desc"] = 1
    /\ Len(prods) >= 1

\* The first present neighbour of the k-th cell position, as find_near looks
\* for it (right, right + 1, below, below + 1), or None.
NeighbourOf(sheet, k) ==
    LET r == RowOf(sheet, k)
        c == ColOf(sheet, k)
    IN  IF InCells(sheet, r, c + 1) THEN sheet[r][c + 1]
        ELSE IF InCells(sheet, r, c + 2) THEN sheet[r][c + 2]
        ELSE IF InCells(sheet, r + 1, c) THEN sheet[r + 1][c]
        ELSE IF InCells(sheet, r + 2, c) THEN sheet[r + 2][c]
        ELSE None

\* The cell positions, in row-major order, whose stored text matches one of
\* the keywords (by the containment test of the code).
MatchingCells(sheet, keywords) ==
    {k \in 1..(max_row(sheet) * max_column(sheet)) :
        /\ InCells(sheet, RowOf(sheet, k), ColOf(sheet, k))
        /\ KeywordMatch(key_norms(keywords),
                        normalize_key(sheet[RowOf(sheet, k)][ColOf(sheet, k)]))}

\* C5: first match wins.  The client is the neighbour of the first cell, in
\* row-major order, that matches the client keywords, and is not available
\* when that cell has no neighbour, whatever later cells match.
C5_FirstMatchWins ==
    ReadOK =>
        LET hits == MatchingCells(LastSheet, ClienteKeys)
        IN  cell_data["Cliente"] =
                IF hits = {} THEN None ELSE NeighbourOf(LastSheet, Min(hits))

\* The first matching cell has no neighbour and the value comes from a later
\* matching cell.
C5_Witness ==
    /\ ReadOK
    /\ Cardinality(MatchingCells(LastSheet, ClienteKeys)) = 2
    /\ NeighbourOf(LastSheet, Min(MatchingCells(LastSheet, ClienteKeys))) = None
    /\ cell_data["Cliente"] = <<"A","C","M","E">>

\* The stop test of C6 on a description cell: blank, or its normalized text
\* contains TOTAL, OBSERVACIONES or NOTES.
ClaimedStop(v) ==
    \/ clean_text(v) = <<>>
    \/ Contains(<<"T","O","T","A","L">>, normalize_key(v))
    \/ Contains(<<"O","B","S","E","R","V","A","C","I","O","N","E","S">>, normalize_key(v))
    \/ Contains(<<"N","O","T","E","S">>, normalize_key(v))

\* The first row below the header that meets ClaimedStop (the row after the
\* last one when there is none).
ClaimedStopRow(sheet, h, dcol) ==
    Min({r \in (h + 1)..max_row(sheet) : ClaimedStop(cell_value(sheet, r, dcol))}
        \cup {max_row(sheet) + 1})

\* C6: the scan stops at the first row below the header whose description is
\* blank or contains TOTAL, OBSERVACIONES or NOTES; no row at or after that
\* row gives a product.
C6_ScanStops ==
    (ReadOK /\ header_row # 0) =>
        \A k \in 1..Len(prod_rows) :
            prod_rows[k] < ClaimedStopRow(LastSheet, header_row, cols["desc"])

\* A row with a blank description gave a product, and so did the row after.
C6_Witness ==
    /\ ReadOK
    /\ header_row = 1
    /\ prod_rows = <<2, 3>>
    /\ prods[1]["Descripcion"] = <<>>
    /\ prods[2]["Descripcion"] = <<"C","A","J","A","S"," ","D","E"," ","A","R","A","N","D","A","N","O","S">>

\* C7: every row strictly between the header row and the stop row gives
\* exactly one product, in row order, so there are as many products as such
\* rows.
C7_OnePerRow ==
    (ReadOK /\ header_row # 0) =>
        LET stop == ClaimedStopRow(LastSheet, header_row, cols["desc"])
        IN  /\ Len(prods) = stop - header_row - 1
            /\ \A k \in 1..Len(prod_rows) : prod_rows[k] = header_row + k

\* A header without a price column, one data row under it, no product.
C7_Witness ==
    /\ ReadOK
    /\ header_row = 1
    /\ "price" \notin DOMAIN cols
    /\ max_row(LastSheet) = 2
    /\ LastSheet[2][1] = <<"U","V","A","S">>
    /\ ClaimedStopRow(LastSheet, 1, cols["desc"]) = 3
    /\ prods = <<>>

\* A row has a cell whose normalized text contains the marker.
HasMarker(row, marker) == \E c \in 1..Len(row) : Contains(marker, normalize_key(row[c]))

\* The rows that hold a description marker and a quantity marker.
RowsWithBoth(sheet) ==
    {r \in 1..max_row(sheet) :
        HasMarker(sheet[r], <<"D","E","S","C","R","I","P","C","I","O","N">>) /\ HasMarker(sheet[r], <<"C","A","N","T","I","D","A","D">>)}

\* C8: the header row is the first row, top to bottom, that holds both a
\* description marker and a quantity marker (a row with one of them is never
\* chosen); when no row holds both, extract_products returns an empty list
\* and process_full still returns its single record without an error.
C8_HeaderRow ==
    ReadOK =>
        LET both == RowsWithBoth(LastSheet)
        IN  /\ header_row = (IF both = {} THEN 0 ELSE Min(both))
            /\ both = {} => (prods = <<>> /\ err = "None" /\ Len(rows) = 1)

\* A row with the description marker alone is passed over and the row
\* below it, which has both, is the header of a table with a product.
C8_Witness ==
    /\ ReadOK
    /\ HasMarker(LastSheet[1], <<"D","E","S","C","R","I","P","C","I","O","N">>)
    /\ ~HasMarker(LastSheet[1], <<"C","A","N","T","I","D","A","D">>)
    /\ header_row = 2
    /\ Len(prods) = 1

\* The coerced value of the total cell of the row of the k-th product.
TotalCell(k) == col_float(LastSheet, cols, prod_rows[k], "total")

\* C9 as stated: Total Linea is the total cell when there is a total column
\* and the value is non-zero, and Cantidad x Precio Unitario otherwise.
C9_TotalUnlessZero ==
    ReadOK =>
        \A k \in 1..Len(prods) :
            prods[k]["Total Linea"] =
                IF "total" \in DOMAIN cols /\ TotalCell(k).m # 0
                THEN TotalCell(k)
                ELSE Mul(prods[k]["Cantidad"], prods[k]["Precio Unitario"])

\* C9, amended: Total Linea is the total cell when there is a total column
\* and the value is greater than zero, and Cantidad x Precio Unitario when
\* the column is absent or the value is zero or negative.
C9_TotalWhenPositive ==
    ReadOK =>
        \A k \in 1..Len(prods) :
            prods[k]["Total Linea"] =
                IF "total" \in DOMAIN cols /\ TotalCell(k).m > 0
                THEN TotalCell(k)
                ELSE Mul(prods[k]["Cantidad"], prods[k]["Precio Unitario"])

\* Under a header with a total column: a product with a negative total cell
\* whose Total Linea is quantity x price (2 x 5 = 10).
C9_Witness ==
    /\ ReadOK
    /\ "total" \in DOMAIN cols
    /\ \E k \in 1..Len(prods) :
           /\ TotalCell(k).m < 0
           /\ prods[k]["Total Linea"] = Dec(10, 0)
           /\ prods[k]["Total Linea"] = Mul(prods[k]["Cantidad"], prods[k]["Precio Unitario"])

(***************************************************************************)
(* Properties of the fragment mining (one document, generated package)     *)
(***************************************************************************)
\* Every record of the last document has this value in this field.
FieldIs(fld, value) == \A k \in 1..Len(rows) : heap[rows[k]][fld] = value

SalePhraseIn(tn) ==
    \/ Contains(<<"B","A","J","O"," ","C","O","N","D","I","C","I","O","N">>, tn)
    \/ Contains(<<"C","O","N","S","I","G","N","A","C","I","O","N">>, tn)
    \/ Contains(<<"U","N","D","E","R"," ","C","O","N","D","I","T","I","O","N">>, tn)

\* The fragment's normalized text contains a sale-condition phrase.
HasSalePhrase(t) == SalePhraseIn(normalize_key(t))

\* The Condicion_Venta of the structured reader, or the empty string.
GridCondicion(grid) ==
    IF "Condicion_Venta" \in DOMAIN grid THEN grid["Condicion_Venta"] ELSE <<>>

\* C10: the Condicion_Venta of the output is the first fragment, in the
\* order of the fragment list, whose normalized text contains BAJO
\* CONDICION, CONSIGNACION or UNDER CONDITION; without such a fragment it is
\* the Condicion_Venta of the structured reader when that reader gave one,
\* and otherwise the empty string.
C10_SaleCondition ==
    ReadOK =>
        FieldIs("Condicion_Venta",
                FirstSuch(raw_texts,
                          {k \in 1..Len(raw_texts) : HasSalePhrase(raw_texts[k])},
                          GridCondicion(extract_cell_data(LastSheet))))

\* Two fragments hold a sale-condition phrase and the output has the one
\* that comes first in the fragment list.
C10_Witness ==
    /\ ReadOK
    /\ Len(raw_texts) >= 2
    /\ HasSalePhrase(raw_texts[1])
    /\ HasSalePhrase(raw_texts[2])
    /\ raw_texts[1] # raw_texts[2]
    /\ heap[rows[1]]["Condicion_Venta"] = raw_texts[1]

BoilerplateIn(tn) ==
    \/ Contains(<<"S","O","C","I","E","D","A","D">>, tn)
    \/ Contains(<<"C","O","M","M","E","R","C","I","A","L"," ","I","N","V","O","I","C","E">>, tn)
    \/ Contains(<<"B","A","N","K">>, tn)

\* The fragment's normalized text contains a boilerplate marker.
HasBoilerplate(t) == BoilerplateIn(normalize_key(t))

\* The fragment may be given as the observation.
Qualifies(t) == Len(t) > 30 /\ ~HasBoilerplate(t)

\* Every record of the last document has this observation, and it is the
\* empty string or a qualifying fragment.
ObservacionesIs(value) ==
    /\ FieldIs("Observaciones", value)
    /\ value # <<>> => Qualifies(value)

LastPackage == uploaded_files[i - 1].package

\* The stripped texts of a list that are longer than min characters.
Stripped(list, min) == {t \in {strip(list[k]) : k \in 1..Len(list)} : Len(t) > min}

\* The list holds each element of the set once and nothing else.
IsListingOf(list, S) ==
    /\ {list[k] : k \in 1..Len(list)} = S
    /\ Len(list) = Cardinality(S)

\* The fragments of the parts scanned before the part that fails (the parts
\* are scanned in the order sharedStrings, drawings, comments).
CollectedBefore(package) ==
    (IF package.fail_at \in {"zip", "shared"} THEN {}
     ELSE Stripped(package.shared, 0))
    \cup (IF package.fail_at \in {"zip", "shared", "drawing"} THEN {}
          ELSE Stripped(package.drawings, 1))
    \cup (IF package.fail_at \in {"zip", "shared", "drawing", "comment"} THEN {}
          ELSE Stripped(package.comments, 1))

\* The "Error XML" reports issued so far.
XmlErrors == SelectSeq(errors, LAMBDA e : e.msg = "Error XML")

\* C13: a failure while the package is scanned never fails the document.
\* When the workbook was read, process_full returns the records with no
\* error (and the loop reports no "Error archivo"), whatever part of the
\* package failed; the failure is reported once, and the fragment list is
\* made of exactly the fragments collected before the failure.
C13_ScanFailureContained ==
    ReadOK =>
        /\ err = "None"
        /\ rows # <<>>
        /\ all_data = rows
        /\ ArchivoErrors(errors) = <<>>
        /\ Len(XmlErrors) = (IF LastPackage.fail_at = "none" THEN 0 ELSE 1)
        /\ IsListingOf(raw_texts, CollectedBefore(LastPackage))

\* The comments part fails after the shared strings and the drawings gave
\* fragments: the fragments are kept, the failure is reported and the
\* document still gives its record.
C13_Witness ==
    /\ ReadOK
    /\ LastPackage.fail_at = "comment"
    /\ LastPackage.comments # <<>>
    /\ Len(raw_texts) = 3
    /\ Len(XmlErrors) = 1
    /\ err = "None"
    /\ Len(all_data) = 1

MinedFields == {"Observaciones", "Condicion_Venta", "Tipo_Cambio"}

\* C12: mining is deterministic.  The fragment list of a package has the
\* same order on every call, so a run of the script on the same batch after
\* the app was restarted gives the same fragment lists and the same
\* Observaciones, Condicion_Venta and Tipo_Cambio as the run before.
C12_Deterministic ==
    (pc = "done" /\ previous # <<>>) =>
        /\ raw_debug = previous[1].raw
        /\ Len(all_data) = Len(previous[1].data)
        /\ \A k \in 1..Len(all_data) : \A fld \in MinedFields :
               heap[all_data[k]][fld] = previous[1].data[k][fld]

\* Two fragments qualify as the observation and the run after the restart
\* gives the other one.
C12_Witness ==
    /\ pc = "done"
    /\ previous # <<>>
    /\ Len(raw_texts) = 2
    /\ Len(raw_texts[1]) > 30 /\ Len(raw_texts[2]) > 30
    /\ heap[all_data[1]]["Observaciones"] = raw_texts[1]
    /\ previous[1].data[1]["Observaciones"] = raw_texts[2]

====
